---- MODULE Spec2Model ----
(***************************************************************************)
(* PID_Controller of src/src/pid_controller.py as a state machine.         *)
(*                                                                         *)
(* The controller computes over Python floats.  The model computes over    *)
(* exact rationals, the "finite reals" the arithmetic approximates: a      *)
(* number is a sign, a numerator and a denominator, the last two being     *)
(* natural numbers of arbitrary size (TLC's own integers are 32 bits wide  *)
(* and dt = 1e-6 multiplied through two steps no longer fits).             *)
(***************************************************************************)
EXTENDS Integers, Sequences, FiniteSets, TLC

(***************************************************************************)
(* Natural numbers of arbitrary size: a sequence of limbs, least           *)
(* significant first, no leading zero limb; zero is the empty sequence.    *)
(***************************************************************************)
Base == 100 * 100

Limb(a, i) == IF i <= Len(a) THEN a[i] ELSE 0

RECURSIVE MagTrim(_)
MagTrim(a) ==
    IF a = <<>> THEN a
    ELSE IF a[Len(a)] = 0 THEN MagTrim(SubSeq(a, 1, Len(a) - 1))
    ELSE a

RECURSIVE MagOfNat(_)
MagOfNat(k) == IF k = 0 THEN <<>> ELSE <<k % Base>> \o MagOfNat(k \div Base)

RECURSIVE MagCmpFrom(_, _, _)
MagCmpFrom(a, b, i) ==
    IF i = 0 THEN 0
    ELSE IF a[i] > b[i] THEN 1
    ELSE IF a[i] < b[i] THEN -1
    ELSE MagCmpFrom(a, b, i - 1)

MagCmp(a, b) ==
    IF Len(a) > Len(b) THEN 1
    ELSE IF Len(a) < Len(b) THEN -1
    ELSE MagCmpFrom(a, b, Len(a))

RECURSIVE MagAddFrom(_, _, _, _)
MagAddCarry(a, b, i, s) == <<s % Base>> \o MagAddFrom(a, b, i + 1, s \div Base)

MagAddFrom(a, b, i, c) ==
    IF i > Len(a) /\ i > Len(b)
    THEN (IF c = 0 THEN <<>> ELSE <<c>>)
    ELSE MagAddCarry(a, b, i, Limb(a, i) + Limb(b, i) + c)

MagAdd(a, b) == MagAddFrom(a, b, 1, 0)

RECURSIVE MagSubFrom(_, _, _, _)
MagSubBorrow(a, b, i, s) ==
    <<IF s < 0 THEN s + Base ELSE s>>
        \o MagSubFrom(a, b, i + 1, IF s < 0 THEN 1 ELSE 0)

MagSubFrom(a, b, i, br) ==
    IF i > Len(a) THEN <<>>
    ELSE MagSubBorrow(a, b, i, a[i] - Limb(b, i) - br)

\* a - b for a >= b
MagSub(a, b) == MagTrim(MagSubFrom(a, b, 1, 0))

RECURSIVE MagColumn(_, _, _, _)
MagColumn(a, b, k, i) ==
    IF i > Len(a) \/ i > k THEN 0
    ELSE (IF k + 1 - i <= Len(b) THEN a[i] * b[k + 1 - i] ELSE 0)
             + MagColumn(a, b, k, i + 1)

RECURSIVE MagMulFrom(_, _, _, _)
MagMulCarry(a, b, k, s) == <<s % Base>> \o MagMulFrom(a, b, k + 1, s \div Base)

MagMulFrom(a, b, k, c) ==
    IF k > Len(a) + Len(b) - 1
    THEN (IF c = 0 THEN <<>> ELSE <<c>>)
    ELSE MagMulCarry(a, b, k, MagColumn(a, b, k, 1) + c)

MagMul(a, b) ==
    IF a = <<>> \/ b = <<>> THEN <<>>
    ELSE IF a = <<1>> THEN b
    ELSE IF b = <<1>> THEN a
    ELSE MagMulFrom(a, b, 1, 0)

\* a mod p and a div p for a one-limb p
RECURSIVE MagModSmallFrom(_, _, _, _)
MagModSmallFrom(a, p, i, r) ==
    IF i = 0 THEN r ELSE MagModSmallFrom(a, p, i - 1, (r * Base + a[i]) % p)

MagModSmall(a, p) == MagModSmallFrom(a, p, Len(a), 0)

RECURSIVE MagDivSmallFrom(_, _, _, _)
MagDivSmallFrom(a, p, i, r) ==
    IF i = 0 THEN <<>>
    ELSE Append(MagDivSmallFrom(a, p, i - 1, (r * Base + a[i]) % p),
                (r * Base + a[i]) \div p)

MagDivSmall(a, p) == MagTrim(MagDivSmallFrom(a, p, Len(a), 0))

(***************************************************************************)
(* Rationals [s, n, d]: sign s in {-1, 0, 1}, numerator n, denominator d.  *)
(* A fraction of two one- or two-limb numbers is brought to lowest terms   *)
(* by Euclid's algorithm on TLC's integers.  A longer one has the primes   *)
(* below cancelled: every denominator of the model is a product of them    *)
(* (the factors of 10, of 1e6 + 1 and 1e6 - 1, and of the small clock      *)
(* differences).  Comparison cross-multiplies and relies on neither.       *)
(***************************************************************************)
SmallPrimes == <<2, 5, 3, 7, 11, 13, 37, 101, 9901>>

RECURSIVE Gcd(_, _)
Gcd(a, b) == IF b = 0 THEN a ELSE Gcd(b, a % b)

\* the value of a magnitude of at most two limbs
NatOfMag(a) ==
    IF a = <<>> THEN 0 ELSE IF Len(a) = 1 THEN a[1] ELSE a[1] + Base * a[2]

RECURSIVE CancelPrimes(_, _, _)
CancelPrimes(n, d, ps) ==
    IF ps = <<>> \/ d = <<1>> THEN <<n, d>>
    ELSE IF MagModSmall(d, Head(ps)) = 0 /\ MagModSmall(n, Head(ps)) = 0
         THEN CancelPrimes(MagDivSmall(n, Head(ps)), MagDivSmall(d, Head(ps)), ps)
         ELSE CancelPrimes(n, d, Tail(ps))

CancelBy(x, y, g) == <<MagOfNat(x \div g), MagOfNat(y \div g)>>

CancelNat(x, y) == CancelBy(x, y, Gcd(x, y))

Cancel(n, d) ==
    IF d = <<1>> THEN <<n, d>>
    ELSE IF Len(n) <= 2 /\ Len(d) <= 2
         THEN CancelNat(NatOfMag(n), NatOfMag(d))
         ELSE CancelPrimes(n, d, SmallPrimes)

RatOfPair(s, c) == [s |-> s, n |-> c[1], d |-> c[2]]

MkRat(s, n, d) ==
    IF n = <<>> \/ s = 0 THEN [s |-> 0, n |-> <<>>, d |-> <<1>>]
    ELSE RatOfPair(s, Cancel(n, d))

Sgn(k) == IF k > 0 THEN 1 ELSE IF k < 0 THEN -1 ELSE 0
AbsInt(k) == IF k < 0 THEN -k ELSE k

\* the rational num/den of two integers, den # 0
Rat(num, den) ==
    MkRat(Sgn(num) * Sgn(den), MagOfNat(AbsInt(num)), MagOfNat(AbsInt(den)))

RatInt(k) == Rat(k, 1)
RatZero == RatInt(0)

RatNeg(a) == [a EXCEPT !.s = -a.s]
RatAbs(a) == [a EXCEPT !.s = a.s * a.s]

\* numerator and denominator are single limbs: products fit TLC's integers
IsSmall(a) == Len(a.n) <= 1 /\ Len(a.d) = 1

\* -1, 0, 1 as a < b, a = b, a > b
RatCmp(a, b) ==
    IF a.s # b.s THEN (IF a.s < b.s THEN -1 ELSE 1)
    ELSE IF a.s = 0 THEN 0
    ELSE IF a.d = b.d THEN a.s * MagCmp(a.n, b.n)
    ELSE IF IsSmall(a) /\ IsSmall(b)
         THEN a.s * Sgn(a.n[1] * b.d[1] - b.n[1] * a.d[1])
    ELSE a.s * MagCmp(MagMul(a.n, b.d), MagMul(b.n, a.d))

RatEq(a, b) == RatCmp(a, b) = 0
RatLt(a, b) == RatCmp(a, b) < 0
RatLe(a, b) == RatCmp(a, b) <= 0
RatGt(a, b) == RatCmp(a, b) > 0

\* sa * x / d + sb * y / d for sa, sb in {-1, 1}; c compares x with y
RatAddOver(sa, x, sb, y, d, c) ==
    IF sa = sb THEN MkRat(sa, MagAdd(x, y), d)
    ELSE IF c = 0 THEN RatZero
    ELSE IF c > 0 THEN MkRat(sa, MagSub(x, y), d)
    ELSE MkRat(sb, MagSub(y, x), d)

RatAddCross(sa, x, sb, y, d) == RatAddOver(sa, x, sb, y, d, MagCmp(x, y))

RatAdd(a, b) ==
    IF a.s = 0 THEN b
    ELSE IF b.s = 0 THEN a
    ELSE IF IsSmall(a) /\ IsSmall(b)
         THEN Rat(a.s * a.n[1] * b.d[1] + b.s * b.n[1] * a.d[1],
                  a.d[1] * b.d[1])
    ELSE IF a.d = b.d
         THEN RatAddCross(a.s, a.n, b.s, b.n, a.d)
    ELSE RatAddCross(a.s, MagMul(a.n, b.d), b.s, MagMul(b.n, a.d),
                     MagMul(a.d, b.d))

RatSub(a, b) == RatAdd(a, RatNeg(b))

RatMul(a, b) ==
    IF a.s = 0 \/ b.s = 0 THEN RatZero
    ELSE IF IsSmall(a) /\ IsSmall(b)
         THEN Rat(a.s * b.s * a.n[1] * b.n[1], a.d[1] * b.d[1])
    ELSE MkRat(a.s * b.s, MagMul(a.n, b.n), MagMul(a.d, b.d))

\* a / b for b # 0
RatDiv(a, b) ==
    IF a.s = 0 THEN RatZero
    ELSE IF IsSmall(a) /\ IsSmall(b)
         THEN Rat(a.s * b.s * a.n[1] * b.d[1], a.d[1] * b.n[1])
    ELSE MkRat(a.s * b.s, MagMul(a.n, b.d), MagMul(a.d, b.n))

RatMax(a, b) == IF RatLt(a, b) THEN b ELSE a
RatMin(a, b) == IF RatLt(b, a) THEN b ELSE a

(***************************************************************************)
(* Bounds of the model and the inputs drawn at each call.                  *)
(***************************************************************************)
\* compute calls per run
MaxSteps == 2

\* what time.time() has advanced by since the instance last stored it
\* (seconds): the clock may stand still or step back between two calls
Elapsed == {-1, 0, 1, 2}

\* <<current_value, target_value>> of a call
Inputs == {<<0, 5>>, <<0, 20>>, <<0, 10>>, <<0, 1>>, <<4, 0>>}

\* the dt substituted at pid_controller.py:68
Eps == Rat(1, 1000000)

\* constructor arguments: kp, ki, kd, min_output, max_output, tau,
\* integrator_reset_delta.  The constructor checks none of them, so a
\* caller's min_output > max_output and tau < 0 are inputs too.
Cfg(kp, ki, kd, lo, hi, tau, delta) ==
    [kp |-> RatInt(kp), ki |-> RatInt(ki), kd |-> RatInt(kd),
     min_output |-> RatInt(lo), max_output |-> RatInt(hi),
     tau |-> tau, integrator_reset_delta |-> RatInt(delta)]

Configs ==
    { Cfg(1, 0, 0, -10, 10, RatInt(1), 1),
      Cfg(1, 1, 1, -10, 10, RatInt(1), 1),
      Cfg(1, 1, 0, 5, 6, RatZero, 1),
      Cfg(1, 0, 1, 5, 5, RatInt(1), 1),
      Cfg(1, 0, 0, 10, -10, RatInt(1), 1),
      Cfg(1, 1, 1, -10, 10, RatNeg(Eps), 1) }

\* min_output <= max_output and tau >= 0
ValidConfig(c) == RatLe(c.min_output, c.max_output) /\ c.tau.s >= 0

(***************************************************************************)
(* The controller object and the locals of a compute call.                 *)
(***************************************************************************)
VARIABLES
    pid,      \* the PID_Controller instance, NoPid before __init__
    old,      \* the instance as the last compute call found it
    call,     \* the locals of the last compute call and how it ended
    steps,    \* compute calls made
    pid2,     \* a second instance built from the same arguments
    call2,    \* the locals of the second instance's last compute call
    same_elapsed  \* both instances saw the same clock differences so far

vars == <<pid, old, call, steps, pid2, call2, same_elapsed>>

NoPid == [made |-> FALSE]

\* PID_Controller.__init__ with time.time() returning now
NewPid(c, now) ==
    [made |-> TRUE,
     kp |-> c.kp, ki |-> c.ki, kd |-> c.kd,
     min_output |-> c.min_output, max_output |-> c.max_output,
     tau |-> c.tau,
     integrator_reset_delta |-> c.integrator_reset_delta,
     k_aw |-> Rat(90, 100),
     max_derivative |-> RatMul(c.max_output, Rat(2, 10)),
     min_derivative |-> RatMul(c.min_output, Rat(2, 10)),
     max_out_rate |-> RatMul(RatSub(c.max_output, c.min_output), RatInt(1)),
     last_error |-> RatZero,
     last_time |-> RatInt(now),
     integral |-> RatZero,
     last_derivative |-> RatZero,
     last_value |-> RatZero,
     last_target |-> RatZero,
     last_output |-> RatZero,
     clamped |-> FALSE]

\* math.copysign(m, v) over the reals; the sign of 0.0 is +.  (With kp > 0,
\* as in every configuration above, neither error nor output is ever -0.0.)
CopySign(m, v) == IF v.s < 0 THEN RatNeg(RatAbs(m)) ELSE RatAbs(m)

\* lines 67-68
PositiveDt(dt) == IF RatLe(dt, RatZero) THEN Eps ELSE dt

\* EffectiveDt taking the clock reading itself for the time step
EffectiveDtAbsolute(current_time, last_time) == PositiveDt(current_time)

\* lines 65-68: the time step
EffectiveDt(current_time, last_time) ==
    PositiveDt(RatSub(current_time, last_time))

\* ResetIntegral attenuating already at a jump of integrator_reset_delta
ResetIntegralAtThreshold(p, target_value) ==
    IF RatLe(p.integrator_reset_delta,
             RatAbs(RatSub(p.last_target, target_value)))
    THEN RatMul(p.integral, Rat(5, 10))
    ELSE p.integral

\* lines 80-81: attenuate the integral on a set-point jump
ResetIntegral(p, target_value) ==
    IF RatGt(RatAbs(RatSub(p.last_target, target_value)),
             p.integrator_reset_delta)
    THEN RatMul(p.integral, Rat(5, 10))
    ELSE p.integral

\* Accumulate without the anti-windup gate
AccumulateAlways(clamped, integral, error, dt) ==
    RatAdd(integral, RatMul(error, dt))

\* lines 84-85: integrate unless the last output was clamped
Accumulate(clamped, integral, error, dt) ==
    IF ~clamped THEN RatAdd(integral, RatMul(error, dt)) ELSE integral

\* line 91: derivative on measurement
Derivative(p, current_value, dt) ==
    RatDiv(RatNeg(RatSub(current_value, p.last_value)), dt)

\* line 158: tau / (tau + dt) raises ZeroDivisionError when tau + dt = 0
FilterRaises(p, dt) == RatEq(RatAdd(p.tau, dt), RatZero)

\* line 161
Smooth(alpha, last_derivative, raw_derivative) ==
    RatAdd(RatMul(alpha, last_derivative),
           RatMul(RatSub(RatInt(1), alpha), raw_derivative))

\* _filter_derivative, lines 158-163, for tau + dt # 0
FilterDerivative(p, raw_derivative, dt) ==
    Smooth(RatDiv(p.tau, RatAdd(p.tau, dt)), p.last_derivative, raw_derivative)

\* line 98
ClampDerivative(p, filtered_derivative) ==
    RatMax(p.min_derivative, RatMin(filtered_derivative, p.max_derivative))

\* _apply_clamping, line 137
ApplyClamping(p, output) ==
    RatMax(p.min_output, RatMin(p.max_output, output))

\* ClampedFlag without the comparison of signs
ClampedFlagAtLimit(p, clamped_output, error) ==
    \/ RatEq(clamped_output, p.min_output)
    \/ RatEq(clamped_output, p.max_output)

\* _apply_clamping, lines 140-142: the new value of _clamped
ClampedFlag(p, clamped_output, error) ==
    /\ RatEq(CopySign(RatInt(1), clamped_output), CopySign(RatInt(1), error))
    /\ \/ RatEq(clamped_output, p.min_output)
       \/ RatEq(clamped_output, p.max_output)

\* BackCalculate without the factor dt
BackCalculateNoDt(p, clamped, integral, output, clamped_output, dt) ==
    IF clamped
    THEN RatSub(integral, RatMul(RatSub(output, clamped_output), p.k_aw))
    ELSE integral

\* lines 107-108: back calculation
BackCalculate(p, clamped, integral, output, clamped_output, dt) ==
    IF clamped
    THEN RatSub(integral,
                RatMul(RatMul(RatSub(output, clamped_output), p.k_aw), dt))
    ELSE integral

\* lines 112-113
RateLimit(p, clamped_output, dt, delta_output) ==
    IF RatGt(RatDiv(RatAbs(delta_output), dt), p.max_out_rate)
    THEN RatAdd(p.last_output,
                CopySign(RatMul(p.max_out_rate, dt), delta_output))
    ELSE clamped_output

\* lines 111-113: slew rate limiting
SlewLimit(p, clamped_output, dt) ==
    RateLimit(p, clamped_output, dt, RatSub(clamped_output, p.last_output))

\* kind: none (no call yet), returned, raised (ZeroDivisionError)
NoCall ==
    [kind |-> "none",
     current_value |-> RatZero, target_value |-> RatZero,
     current_time |-> RatZero, elapsed |-> RatZero, dt |-> RatZero,
     error |-> RatZero, p_term |-> RatZero,
     integral_reset |-> RatZero, integral_acc |-> RatZero,
     i_term |-> RatZero,
     derivative |-> RatZero, filtered_before |-> RatZero,
     filtered_derivative |-> RatZero, d_term |-> RatZero,
     output |-> RatZero, clamped_output |-> RatZero,
     clamped |-> FALSE, integral |-> RatZero, result |-> RatZero]

(***************************************************************************)
(* PID_Controller.compute(current_value, target_value) with time.time()    *)
(* returning current_time, section by section; c holds the locals so far.  *)
(* integral_reset and integral_acc are self._integral after lines 81 and   *)
(* 85, integral and clamped are self._integral and self._clamped when the  *)
(* call ends.  filtered_before is the filtered derivative of the           *)
(* instance's previous returning call (0 before the first): a history      *)
(* value, not a field of the instance.                                     *)
(***************************************************************************)
\* lines 64-81
Enter(p, filtered_before, current_value, target_value, current_time) ==
    [NoCall EXCEPT
        !.kind = "returned",
        !.current_value = current_value,
        !.target_value = target_value,
        !.current_time = current_time,
        !.elapsed = RatSub(current_time, p.last_time),
        !.dt = EffectiveDt(current_time, p.last_time),
        !.error = RatSub(target_value, current_value),
        !.integral_reset = ResetIntegral(p, target_value),
        !.clamped = p.clamped,
        !.filtered_before = filtered_before]

\* lines 74-75, 84-85
Integrate(p, c) ==
    [c EXCEPT
        !.p_term = RatMul(p.kp, c.error),
        !.integral_acc = Accumulate(p.clamped, c.integral_reset, c.error, c.dt)]

\* lines 86-95
Differentiate(p, c) ==
    [c EXCEPT
        !.i_term = RatMul(p.ki, c.integral_acc),
        !.integral = c.integral_acc,
        !.derivative = Derivative(p, c.current_value, c.dt),
        !.kind = IF FilterRaises(p, c.dt) THEN "raised" ELSE "returned"]

Filter(p, c) ==
    [c EXCEPT
        !.filtered_derivative = FilterDerivative(p, c.derivative, c.dt)]

\* lines 98-100
DTerm(p, c) ==
    [c EXCEPT
        !.d_term = RatMul(p.kd, ClampDerivative(p, c.filtered_derivative))]

\* line 103
Sum(p, c) ==
    [c EXCEPT !.output = RatAdd(RatAdd(c.p_term, c.i_term), c.d_term)]

\* line 106
Clamp(p, c) ==
    [c EXCEPT !.clamped_output = ApplyClamping(p, c.output)]

Flag(p, c) ==
    [c EXCEPT !.clamped = ClampedFlag(p, c.clamped_output, c.error)]

\* lines 107-113
Unwind(p, c) ==
    [c EXCEPT
        !.integral = BackCalculate(p, c.clamped, c.integral_acc, c.output,
                                   c.clamped_output, c.dt),
        !.result = SlewLimit(p, c.clamped_output, c.dt)]

AfterDivision(p, c) ==
    IF c.kind = "raised" THEN c
    ELSE Unwind(p, Flag(p, Clamp(p, Sum(p, DTerm(p, Filter(p, c))))))

ComputeCall(p, filtered_before, current_value, target_value, current_time) ==
    AfterDivision(p, Differentiate(p, Integrate(p,
        Enter(p, filtered_before, current_value, target_value, current_time))))

\* the instance after the call: lines 81, 85, 108, 140 and 116-121.  A call
\* that raised has written self._integral and nothing else.
Commit(p, c) ==
    IF c.kind = "raised" THEN [p EXCEPT !.integral = c.integral]
    ELSE [p EXCEPT !.integral = c.integral,
                   !.clamped = c.clamped,
                   !.last_error = c.error,
                   !.last_time = c.current_time,
                   !.last_derivative = c.derivative,
                   !.last_value = c.current_value,
                   !.last_target = c.target_value,
                   !.last_output = c.result]

Init ==
    /\ pid = NoPid
    /\ old = NoPid
    /\ call = NoCall
    /\ steps = 0
    /\ pid2 = NoPid
    /\ call2 = NoCall
    /\ same_elapsed = TRUE

\* pid = PID_Controller(...); the clock counts from this moment
Construct ==
    /\ ~pid.made
    /\ \E c \in Configs : pid' = NewPid(c, 0)
    /\ UNCHANGED <<old, call, steps, pid2, call2, same_elapsed>>

\* pid.compute(current_value, target_value)
Compute ==
    /\ pid.made
    /\ steps < MaxSteps
    /\ \E in \in Inputs, e \in Elapsed :
          call' = ComputeCall(pid, call.filtered_derivative,
                              RatInt(in[1]), RatInt(in[2]),
                              RatAdd(pid.last_time, RatInt(e)))
    /\ pid' = Commit(pid, call')
    /\ old' = pid
    /\ steps' = steps + 1
    /\ UNCHANGED <<pid2, call2, same_elapsed>>

Next == Construct \/ Compute

Spec == Init /\ [][Next]_vars

(***************************************************************************)
(* Two instances built from the same arguments, the second one a second    *)
(* later, and fed the same current_value and target_value call by call.    *)
(* Each call reads the clock for itself.                                   *)
(***************************************************************************)
TwinInputs == {<<0, 5>>, <<4, 0>>}
TwinElapsed == {0, 1, 2}

TwinConstruct ==
    /\ ~pid.made
    /\ \E c \in Configs :
          /\ pid' = NewPid(c, 0)
          /\ pid2' = NewPid(c, 1)
    /\ UNCHANGED <<old, call, steps, call2, same_elapsed>>

TwinCompute ==
    /\ pid.made
    /\ steps < MaxSteps
    /\ \E in \in TwinInputs, e1 \in TwinElapsed, e2 \in TwinElapsed :
          /\ call' = ComputeCall(pid, call.filtered_derivative,
                                 RatInt(in[1]), RatInt(in[2]),
                                 RatAdd(pid.last_time, RatInt(e1)))
          /\ call2' = ComputeCall(pid2, call2.filtered_derivative,
                                  RatInt(in[1]), RatInt(in[2]),
                                  RatAdd(pid2.last_time, RatInt(e2)))
          /\ same_elapsed' = (same_elapsed /\ e1 = e2)
    /\ pid' = Commit(pid, call')
    /\ pid2' = Commit(pid2, call2')
    /\ old' = pid
    /\ steps' = steps + 1

NextTwin == TwinConstruct \/ TwinCompute

SpecTwin == Init /\ [][NextTwin]_vars

(***************************************************************************)
(* Properties.  Called: a compute call has been made.  Returned: the last  *)
(* one returned a value.                                                   *)
(***************************************************************************)
Called == call.kind # "none"
Returned == call.kind = "returned"

Half == Rat(1, 2)
NineTenths == Rat(9, 10)

\* C1: for a valid configuration every value compute returns lies within
\* [min_output, max_output], the first call and rate-limited steps included.
C1_OutputWithinLimits ==
    (Returned /\ ValidConfig(old))
        => /\ RatLe(old.min_output, call.result)
           /\ RatLe(call.result, old.max_output)

\* What does hold: a valid configuration whose limits enclose 0.0, the
\* initial last_output, keeps every returned value within the limits.
OutputWithinLimitsAroundZero ==
    (Returned /\ ValidConfig(old)
        /\ old.min_output.s <= 0 /\ old.max_output.s >= 0)
        => /\ RatLe(old.min_output, call.result)
           /\ RatLe(call.result, old.max_output)

\* C2: construction succeeds only when min_output <= max_output and
\* tau >= 0; otherwise it fails and yields no controller.
C2_ConstructionValidates == pid.made => ValidConfig(pid)

\* C3: the returned output differs from the previous returned output (0.0
\* before the first call) by at most max_out_rate * dt.
C3_SlewRateBounded ==
    Returned
        => RatLe(RatAbs(RatSub(call.result, old.last_output)),
                 RatMul(old.max_out_rate, call.dt))

\* What does hold: the bound of C3 for instances with min_output <= max_output.
SlewRateBoundedWhenOrdered ==
    (Returned /\ RatLe(old.min_output, old.max_output))
        => RatLe(RatAbs(RatSub(call.result, old.last_output)),
                 RatMul(old.max_out_rate, call.dt))

C5_DegenerateDtNeverFails ==
    (Called /\ RatLe(call.elapsed, RatZero))
        => /\ call.kind = "returned"
           /\ RatEq(call.dt, Eps)

\* What does hold: the same for instances with tau >= 0.
DegenerateDtReturnsWhenTauNonNegative ==
    (Called /\ RatLe(call.elapsed, RatZero) /\ old.tau.s >= 0)
        => /\ call.kind = "returned"
           /\ RatEq(call.dt, Eps)

\* C6: when the target moved by more than integrator_reset_delta since the
\* last call, the stored integral is multiplied by exactly 0.5 before
\* error * dt is accumulated; otherwise it is not attenuated.
C6_ResetOnSetpointJump ==
    Called
        => /\ IF RatGt(RatAbs(RatSub(old.last_target, call.target_value)),
                       old.integrator_reset_delta)
              THEN RatEq(call.integral_reset, RatMul(old.integral, Half))
              ELSE RatEq(call.integral_reset, old.integral)
           /\ \/ RatEq(call.integral_acc, call.integral_reset)
              \/ RatEq(call.integral_acc,
                       RatAdd(call.integral_reset,
                              RatMul(call.error, call.dt)))

C6_Witness ==
    /\ Called
    /\ old.integral.s # 0
    /\ ~old.clamped
    /\ RatGt(RatAbs(RatSub(old.last_target, call.target_value)),
             old.integrator_reset_delta)
    /\ call.error.s # 0

\* C7: a call that begins with the clamped flag set adds nothing to the
\* integral; one that begins with it clear adds exactly error * dt.  The
\* flag that gates is the one the previous call left.
C7_AccumulationGate ==
    Called
        => IF old.clamped
           THEN RatEq(call.integral_acc, call.integral_reset)
           ELSE RatEq(call.integral_acc,
                      RatAdd(call.integral_reset,
                             RatMul(call.error, call.dt)))

C7_Witness ==
    /\ Returned
    /\ old.clamped
    /\ ~call.clamped
    /\ call.error.s # 0

\* C8: the filtered derivative of a step is
\* alpha * (filtered derivative of the previous step) + (1 - alpha) * raw,
\* with alpha = tau / (tau + dt).  (Stated for valid configurations: it
\* fails there already.)
C8_FilterCarriesFiltered ==
    (Returned /\ ValidConfig(old))
        => RatEq(call.filtered_derivative,
                 Smooth(RatDiv(old.tau, RatAdd(old.tau, call.dt)),
                        call.filtered_before, call.derivative))

\* What the code computes: the previous step's raw derivative is carried.
FilterCarriesRaw ==
    Returned
        => RatEq(call.filtered_derivative,
                 Smooth(RatDiv(old.tau, RatAdd(old.tau, call.dt)),
                        old.last_derivative, call.derivative))

\* C9, as claimed: after the saturation pass the flag is set iff the clamped
\* output differs from the raw output and has the sign of the error.
C9_FlagIffOutputChanged ==
    Returned
        => (call.clamped <=>
               /\ ~RatEq(call.clamped_output, call.output)
               /\ RatEq(CopySign(RatInt(1), call.clamped_output),
                        CopySign(RatInt(1), call.error)))

\* C9, amended: the flag is set iff the raw output is at or beyond a limit
\* (raw >= max_output or raw <= min_output) and the clamped output has the
\* sign of the error (zero counting as positive): a raw output exactly on a
\* limit sets it, one strictly inside the limits does not.
C9_FlagIffAtOrBeyondLimit ==
    Returned
        => (call.clamped <=>
               /\ \/ RatLe(old.max_output, call.output)
                  \/ RatLe(call.output, old.min_output)
               /\ (call.clamped_output.s < 0) = (call.error.s < 0))

C9_Witness ==
    /\ Returned
    /\ call.clamped
    /\ RatEq(call.clamped_output, call.output)
    /\ RatLt(old.min_output, old.max_output)

\* C10: a call whose saturation pass sets the flag lowers the integral by
\* exactly (raw output - clamped output) * 0.90 * dt, the clamped output
\* being the one before rate limiting; one that leaves the flag clear does
\* not touch the integral after accumulation.
C10_BackCalculation ==
    Returned
        => /\ IF call.clamped
              THEN RatEq(call.integral,
                         RatSub(call.integral_acc,
                                RatMul(RatMul(RatSub(call.output,
                                                     call.clamped_output),
                                              NineTenths),
                                       call.dt)))
              ELSE RatEq(call.integral, call.integral_acc)
           /\ RatEq(pid.integral, call.integral)

C10_Witness ==
    /\ Returned
    /\ call.clamped
    /\ ~RatEq(call.output, call.clamped_output)
    /\ ~RatEq(call.result, call.clamped_output)
    /\ ~RatEq(call.dt, RatInt(1))
====
